---------------------------- MODULE Spec2Model ----------------------------
(***************************************************************************)
(* The RTINGS extraction pipeline of autoExtractor.py and                  *)
(* (manual)rtingsParser_autoEq.py: load the HTML file, find the first      *)
(* table, clean the cells of each row, sort, correct, write the output.    *)
(*                                                                         *)
(* Text is a sequence of one-character strings.  A float is an integer     *)
(* count of 1/Scale units (decimal fixed point; the binary rounding of     *)
(* Python floats is not modelled, the inputs are chosen so that it does    *)
(* not occur).  An optional float is <<>> (None) or <<v>>.                 *)
(***************************************************************************)
EXTENDS Integers, Sequences, FiniteSets, TLC

\* ------------------------------------------------------------- bounds
MaxLen == 3
MaxRows == 2

\* --------------------------------------------------- program constants
GainLimit == 32

FracDigits == MaxLen
Scale == 10 ^ FracDigits

\* ------------------------------------------------------------ numbers
None == << >>
Some(v) == << v >>
IsNone(x) == x = << >>
Val(x) == x[1]

Digit == {"0", "1", "2", "3", "4", "5", "6", "7", "8", "9"}

DigitVal(c) ==
  CASE c = "0" -> 0 [] c = "1" -> 1 [] c = "2" -> 2 [] c = "3" -> 3
    [] c = "4" -> 4 [] c = "5" -> 5 [] c = "6" -> 6 [] c = "7" -> 7
    [] c = "8" -> 8 [] c = "9" -> 9

DigitChar(d) ==
  CASE d = 0 -> "0" [] d = 1 -> "1" [] d = 2 -> "2" [] d = 3 -> "3"
    [] d = 4 -> "4" [] d = 5 -> "5" [] d = 6 -> "6" [] d = 7 -> "7"
    [] d = 8 -> "8" [] d = 9 -> "9"

RECURSIVE DigitsValue(_)
DigitsValue(ds) ==
  IF ds = << >> THEN 0
  ELSE DigitsValue(SubSeq(ds, 1, Len(ds) - 1)) * 10 + DigitVal(ds[Len(ds)])

\* str.strip() == "": every character is whitespace
IsSpace(c) == c \in {" ", "\t", "\n"}
IsBlank(value) == \A i \in DOMAIN value : IsSpace(value[i])

\* the characters re.sub(r"[^\d.-]", "", value) keeps
Kept(c) == c \in Digit \cup {".", "-"}
re_sub(value) == SelectSeq(value, Kept)

\* float(num) on a text of digits, '.' and '-': an optional leading '-',
\* digits with at most one '.', at least one digit; ValueError otherwise.
FloatBody(num) == IF num # << >> /\ num[1] = "-" THEN Tail(num) ELSE num
FloatDots(num) == {i \in DOMAIN FloatBody(num) : FloatBody(num)[i] = "."}
FloatParses(num) ==
  /\ \A i \in DOMAIN FloatBody(num) : FloatBody(num)[i] \in Digit \cup {"."}
  /\ Cardinality(FloatDots(num)) <= 1
  /\ \E i \in DOMAIN FloatBody(num) : FloatBody(num)[i] \in Digit

FloatValue(num) ==
  LET body == FloatBody(num)
      dot == IF FloatDots(num) = {} THEN Len(body) + 1
             ELSE CHOOSE i \in FloatDots(num) : TRUE
      ip == SubSeq(body, 1, dot - 1)
      fp == SubSeq(body, dot + 1, Len(body))
      mag == DigitsValue(ip) * Scale
             + DigitsValue(fp) * (10 ^ (FracDigits - Len(fp)))
  IN IF num[1] = "-" THEN 0 - mag ELSE mag

\* clean_number without the re.sub step
clean_numberNoStrip(value) ==
  IF value = << >> \/ IsBlank(value) THEN None
  ELSE IF FloatParses(value) THEN Some(FloatValue(value)) ELSE None

\* clean_number with a parser that reads "1-2" as -1
clean_numberUnanchored(value) ==
  LET num == re_sub(value)
      digits == SelectSeq(num, LAMBDA c : c # "-")
  IN IF value = << >> \/ IsBlank(value) THEN None
     ELSE IF FloatParses(num) THEN Some(FloatValue(num))
     ELSE IF num # << >> /\ FloatParses(digits) /\ num[1] # "-"
          THEN Some(0 - FloatValue(SubSeq(digits, 1, 1)))
     ELSE None

clean_number(value) ==
  IF value = << >> \/ IsBlank(value) THEN None
  ELSE LET num == re_sub(value)
       IN IF FloatParses(num) THEN Some(FloatValue(num)) ELSE None


\* ---------------------------------------------------------- corrector
Min(a, b) == IF b < a THEN b ELSE a
Max(a, b) == IF b > a THEN b ELSE a

\* scale_gain without the lower limit
scale_gainNoLower(gain) == Min(GainLimit * Scale, gain)

scale_gain(gain) == Max(0 - GainLimit * Scale, Min(GainLimit * Scale, gain))

apply_eq_correction(data) ==
  [k \in 1..Len(data) |-> << data[k][1], scale_gain(data[k][2] - data[k][3]) >>]

\* ------------------------------------------------ list.sort(key=x[0])
Front(s) == SubSeq(s, 1, Len(s) - 1)

RECURSIVE InsertRow(_, _)
InsertRow(s, r) ==
  IF s = << >> THEN << r >>
  ELSE IF s[Len(s)][1] <= r[1] THEN Append(s, r)
  ELSE Append(InsertRow(Front(s), r), s[Len(s)])

\* a sort with reverse=True
RECURSIVE SortByFreqDescending(_)
SortByFreqDescending(s) ==
  IF s = << >> THEN << >>
  ELSE LET rest == SortByFreqDescending(Front(s))
           r == s[Len(s)]
           n == Cardinality({k \in DOMAIN rest : rest[k][1] >= r[1]})
       IN SubSeq(rest, 1, n) \o << r >> \o SubSeq(rest, n + 1, Len(rest))

RECURSIVE SortByFreq(_)
SortByFreq(s) ==
  IF s = << >> THEN << >>
  ELSE InsertRow(SortByFreq(Front(s)), s[Len(s)])

\* --------------------------------------------------------- formatting
RECURSIVE NatChars(_)
NatChars(n) ==
  IF n < 10 THEN << DigitChar(n) >>
  ELSE Append(NatChars(n \div 10), DigitChar(n % 10))

Abs(v) == IF v < 0 THEN 0 - v ELSE v

\* str(int(f)): truncation toward zero
IntChars(v) ==
  LET n == Abs(v) \div Scale
  IN IF v < 0 /\ n > 0 THEN << "-" >> \o NatChars(n) ELSE NatChars(n)

\* f"{g:.2f}": two decimals, round-half-even, '-' when the value is negative
Fixed2Chars(v) ==
  LET unit == Scale \div 100
      q == Abs(v) \div unit
      r == Abs(v) % unit
      h == IF 2 * r > unit \/ (2 * r = unit /\ q % 2 = 1) THEN q + 1 ELSE q
  IN (IF v < 0 THEN << "-" >> ELSE << >>)
     \o NatChars(h \div 100)
     \o << ".", DigitChar((h \div 10) % 10), DigitChar(h % 10) >>

\* repr(float): the shortest decimal, at least one fraction digit
RECURSIVE FracChars(_, _)
FracChars(r, unit) ==
  IF unit = 1 \/ r = 0 THEN << >>
  ELSE << DigitChar(r \div (unit \div 10)) >>
       \o FracChars(r % (unit \div 10), unit \div 10)

ReprChars(v) ==
  LET frac == FracChars(Abs(v) % Scale, Scale)
  IN (IF v < 0 THEN << "-" >> ELSE << >>)
     \o NatChars(Abs(v) \div Scale)
     \o << "." >> \o (IF frac = << >> THEN << "0" >> ELSE frac)

\* scale_gain returns the int literal 32 or -32 whenever the result has that
\* value (max and min keep their first argument on a tie); str(32) is "32"
GainReprChars(g) ==
  IF Abs(g) = GainLimit * Scale
  THEN (IF g < 0 THEN << "-" >> ELSE << >>) \o NatChars(GainLimit)
  ELSE ReprChars(g)

RECURSIVE Join(_, _)
Join(parts, sep) ==
  IF parts = << >> THEN << >>
  ELSE IF Len(parts) = 1 THEN parts[1]
  ELSE parts[1] \o sep \o Join(Tail(parts), sep)

RECURSIVE Concat(_)
Concat(parts) ==
  IF parts = << >> THEN << >> ELSE parts[1] \o Concat(Tail(parts))

GraphicEQPrefix == << "G", "r", "a", "p", "h", "i", "c", "E", "Q", ":", " " >>

\* the text save_graphic_eq_format writes
GraphicEQText(data) ==
  GraphicEQPrefix
  \o Join([k \in 1..Len(data) |->
             IntChars(data[k][1]) \o << " " >> \o Fixed2Chars(data[k][2])],
          << ";", " " >>)
  \o << "\n" >>

\* the text autoExtractor.py writes with writelines
PlainText(data) ==
  Concat([k \in 1..Len(data) |->
            ReprChars(data[k][1]) \o << " " >> \o GainReprChars(data[k][2])
            \o << "\n" >>])


\* -------------------------------------------------------------- state
VARIABLES
  script,        \* which of the two scripts runs: "auto" or "manual"
  html,          \* the file at html_file: [exists, table, trs]
  before,        \* the file at output_file when the run starts
  out_file,      \* the file at output_file now
  opened,        \* output_file has been opened for writing
  pc,            \* position in extract_and_clean_rtings_data
  i,             \* index of the next tr of the loop
  freq, target, avg_response,   \* the loop's locals
  rows, eq_data,
  signal,        \* how the call ended: "None" returned, or the exception raised
  printed,       \* the last message printed
  outcome,       \* the exit taken
  value, result  \* argument and return value of a direct clean_number call

vars == << script, html, before, out_file, opened, pc, i, freq, target,
           avg_response, rows, eq_data, signal, printed, outcome, value,
           result >>

Absent == [exists |-> FALSE, text |-> << >>]
File(t) == [exists |-> TRUE, text |-> t]

\* ------------------------------------------------------------- inputs
FreqCells == { << "2", "0" >>, << "5", "4", ".", "5" >>, << "0" >>,
               << "-", "5" >> }
TargetCells == { << "4", "0" >>, << "5", ".", "5" >> }
ResponseCells == { << "-", "1", "0" >>, << "9", "9" >> }

HeaderRow == << >>
BadRow == << << "2", "0" >>, << "d", "B" >>, << >>, << "-", "1", "0" >> >>

RowPool ==
  { << f, t, << >>, a >> : f \in FreqCells, t \in TargetCells,
                           a \in ResponseCells }
  \cup { HeaderRow, BadRow }

Tables(pool, n) == UNION { [1..k -> pool] : k \in 0..n }

Docs(pool, n) ==
  { [exists |-> FALSE, table |-> FALSE, trs |-> << >>],
    [exists |-> TRUE, table |-> FALSE, trs |-> << >>] }
  \cup { [exists |-> TRUE, table |-> TRUE, trs |-> t] : t \in Tables(pool, n) }

OldText == << "o", "l", "d", "\n" >>

CellPool == { << "2", "0" >>, << "-", "5" >>, << "1", "-", "2" >>,
              << "5", "-" >>, << "d", "B" >>, << " " >>, << >>,
              << "3", ".", "2", "5", "d", "B" >> }

CellRows ==
  UNION { [1..k -> CellPool] : k \in {3, 4} }
  \cup { r \o << << "7" >> >> : r \in [1..4 -> CellPool] }

Alphabet == { "5", "4", ".", "-", "d", " " }
Examples == { << "5", "4" >>, << "2", "6", ".", "8", "1", "d", "B" >>,
              << "1", "-", "2" >> }
Strings == UNION { [1..k -> Alphabet] : k \in 0..MaxLen } \cup Examples

InitRun ==
  /\ script \in {"auto", "manual"}
  /\ before \in {Absent, File(OldText)}
  /\ out_file = before
  /\ opened = FALSE
  /\ pc = "load"
  /\ i = 0
  /\ freq = None /\ target = None /\ avg_response = None
  /\ rows = << >> /\ eq_data = << >>
  /\ signal = "running" /\ printed = "" /\ outcome = "running"
  /\ value = << >> /\ result = None

Init == InitRun /\ html \in Docs(RowPool, MaxRows)

InitCells == InitRun /\ html \in Docs(CellRows, 1)

InitClean ==
  /\ script = "auto"
  /\ html = [exists |-> FALSE, table |-> FALSE, trs |-> << >>]
  /\ before = Absent /\ out_file = Absent /\ opened = FALSE
  /\ pc = "clean_number"
  /\ i = 0
  /\ freq = None /\ target = None /\ avg_response = None
  /\ rows = << >> /\ eq_data = << >>
  /\ signal = "running" /\ printed = "" /\ outcome = "running"
  /\ value \in Strings /\ result = None

\* ------------------------------------------------------------ actions
Exit(sig, msg, out) ==
  /\ signal' = sig /\ printed' = msg /\ outcome' = out /\ pc' = "done"

\* autoExtractor.py tests os.path.exists and returns; the manual script
\* lets open() raise
LoadHtml ==
  /\ pc = "load"
  /\ IF html.exists
     THEN pc' = "find_table" /\ UNCHANGED << signal, printed, outcome >>
     ELSE IF script = "auto"
          THEN Exit("None", "Error: File not found.", "InputNotFound")
          ELSE Exit("FileNotFoundError", printed, "InputNotFound")
  /\ UNCHANGED << script, html, before, out_file, opened, i, freq, target,
                  avg_response, rows, eq_data, value, result >>

FindTable ==
  /\ pc = "find_table"
  /\ IF html.table
     THEN /\ pc' = "rows_loop" /\ i' = 1 /\ rows' = << >>
          /\ UNCHANGED << signal, printed, outcome >>
     ELSE /\ Exit("None", "No table found in the HTML file.", "NoTableFound")
          /\ UNCHANGED << i, rows >>
  /\ UNCHANGED << script, html, before, out_file, opened, freq, target,
                  avg_response, eq_data, value, result >>

HasEnoughCells(cells) == Len(cells) >= 4

\* reading the measured response from cell 2 instead of cell 3
ParseCellsThird(cells) ==
  << clean_number(cells[1]), clean_number(cells[2]), clean_number(cells[3]) >>

ParseCells(cells) ==
  << clean_number(cells[1]), clean_number(cells[2]), clean_number(cells[4]) >>

\* a validity test that also wants a positive frequency
IsValidRowPositive(f, t, a) ==
  ~IsNone(f) /\ ~IsNone(t) /\ ~IsNone(a) /\ Val(f) > 0

IsValidRow(f, t, a) == ~IsNone(f) /\ ~IsNone(t) /\ ~IsNone(a)

ExtractRow ==
  /\ pc = "rows_loop" /\ i <= Len(html.trs)
  /\ LET cells == html.trs[i]
     IN IF HasEnoughCells(cells)
        THEN LET p == ParseCells(cells)
             IN /\ freq' = p[1] /\ target' = p[2] /\ avg_response' = p[3]
                /\ rows' = IF IsValidRow(p[1], p[2], p[3])
                           THEN Append(rows, << Val(p[1]), Val(p[2]), Val(p[3]) >>)
                           ELSE rows
        ELSE UNCHANGED << freq, target, avg_response, rows >>
  /\ i' = i + 1
  /\ UNCHANGED << script, html, before, out_file, opened, pc, eq_data,
                  signal, printed, outcome, value, result >>

\* the output opened before the rows are tested
CheckRowsAfterOpen ==
  /\ pc = "rows_loop" /\ i > Len(html.trs)
  /\ out_file' = File(<< >>) /\ opened' = TRUE
  /\ IF rows = << >>
     THEN Exit("None", "No valid data found in the table.", "NoValidData")
     ELSE pc' = "sort" /\ UNCHANGED << signal, printed, outcome >>
  /\ UNCHANGED << script, html, before, i, freq, target, avg_response,
                  rows, eq_data, value, result >>

CheckRows ==
  /\ pc = "rows_loop" /\ i > Len(html.trs)
  /\ IF rows = << >>
     THEN Exit("None", "No valid data found in the table.", "NoValidData")
     ELSE pc' = "sort" /\ UNCHANGED << signal, printed, outcome >>
  /\ UNCHANGED << script, html, before, out_file, opened, i, freq, target,
                  avg_response, rows, eq_data, value, result >>

SortRows ==
  /\ pc = "sort"
  /\ rows' = SortByFreq(rows)
  /\ pc' = "correct"
  /\ UNCHANGED << script, html, before, out_file, opened, i, freq, target,
                  avg_response, eq_data, signal, printed, outcome, value,
                  result >>

ApplyCorrection ==
  /\ pc = "correct"
  /\ eq_data' = apply_eq_correction(rows)
  /\ pc' = "open"
  /\ UNCHANGED << script, html, before, out_file, opened, i, freq, target,
                  avg_response, rows, signal, printed, outcome, value,
                  result >>

\* what the script writes between open() and close()
OutputText(s, data) ==
  IF s = "manual" THEN GraphicEQText(data) ELSE PlainText(data)

\* open(output_file, "w") creates or truncates the file, or raises OSError
OpenOutput ==
  /\ pc = "open"
  /\ \/ /\ out_file' = File(<< >>) /\ opened' = TRUE /\ pc' = "write"
        /\ UNCHANGED << signal, printed, outcome >>
     \/ /\ Exit("OSError", printed, "OutputWriteFailed")
        /\ UNCHANGED << out_file, opened >>
  /\ UNCHANGED << script, html, before, i, freq, target, avg_response,
                  rows, eq_data, value, result >>

\* write and close: the whole text reaches the file, or the write raises
\* OSError with only a part of the text in the file
WriteOutput ==
  /\ pc = "write"
  /\ LET text == OutputText(script, eq_data)
     IN \/ /\ out_file' = File(text) /\ pc' = "report"
           /\ UNCHANGED << signal, printed, outcome >>
        \/ /\ \E n \in 0..(Len(text) - 1) : out_file' = File(SubSeq(text, 1, n))
           /\ Exit("OSError", printed, "OutputWriteFailed")
  /\ UNCHANGED << script, html, before, opened, i, freq, target,
                  avg_response, rows, eq_data, value, result >>

ReportSuccess ==
  /\ pc = "report"
  /\ Exit("None", "data saved", "success")
  /\ UNCHANGED << script, html, before, out_file, opened, i, freq, target,
                  avg_response, rows, eq_data, value, result >>

CleanNumber ==
  /\ pc = "clean_number"
  /\ result' = clean_number(value)
  /\ pc' = "returned"
  /\ UNCHANGED << script, html, before, out_file, opened, i, freq, target,
                  avg_response, rows, eq_data, signal, printed, outcome,
                  value >>

Next ==
  \/ LoadHtml \/ FindTable \/ ExtractRow \/ CheckRows \/ SortRows
  \/ ApplyCorrection \/ OpenOutput \/ WriteOutput \/ ReportSuccess

NextClean == CleanNumber

Spec == Init /\ [][Next]_vars
SpecCells == InitCells /\ [][Next]_vars
SpecClean == InitClean /\ [][NextClean]_vars


\* ------------------------------------------------------------- claims
Done == pc = "done"
Succeeded == Done /\ outcome = "success"

\* eq_data has been computed and handed to the serializer, which has not
\* failed
Corrected ==
  \/ pc \in {"open", "write", "report"}
  \/ Succeeded

\* the tr loop has run to its end
LoopDone ==
  \/ pc \in {"sort", "correct"}
  \/ Corrected
  \/ Done /\ outcome = "NoValidData"

Clamp(x) ==
  IF x > GainLimit * Scale THEN GainLimit * Scale
  ELSE IF x < 0 - GainLimit * Scale THEN 0 - GainLimit * Scale
  ELSE x

\* C1: apply_eq_correction gives one (frequency, gain) point per row, in the
\* same order, the frequency unchanged, gain = clamp(target - measured); so
\* every gain is in [-32, 32] and clamping it again changes nothing.
C1_GainIsClampedDifference ==
  Corrected =>
    /\ Len(eq_data) = Len(rows)
    /\ \A k \in DOMAIN eq_data :
         /\ eq_data[k][1] = rows[k][1]
         /\ eq_data[k][2] = Clamp(rows[k][2] - rows[k][3])
         /\ eq_data[k][2] >= 0 - GainLimit * Scale
         /\ eq_data[k][2] <= GainLimit * Scale
         /\ scale_gain(eq_data[k][2]) = eq_data[k][2]

\* target 40, measured -10 and target 5.5, measured 99: both limits are hit
C1_Witness ==
  /\ Corrected
  /\ \E k \in DOMAIN rows :
       /\ rows[k][2] = 40 * Scale /\ rows[k][3] = 0 - 10 * Scale
       /\ eq_data[k][2] = GainLimit * Scale
  /\ \E k \in DOMAIN rows :
       /\ rows[k][2] - rows[k][3] < 0 - GainLimit * Scale
       /\ eq_data[k][2] = 0 - GainLimit * Scale

\* the point of a table row, when the row is valid
Emit(c0, c1, c3) ==
  LET f == clean_number(c0)
      t == clean_number(c1)
      a == clean_number(c3)
  IN IF IsNone(f) \/ IsNone(t) \/ IsNone(a) THEN << >>
     ELSE << << Val(f), Val(t), Val(a) >> >>

RECURSIVE ValidRows(_)
ValidRows(trs) ==
  IF trs = << >> THEN << >>
  ELSE ValidRows(Front(trs))
       \o (IF Len(trs[Len(trs)]) >= 4
           THEN Emit(trs[Len(trs)][1], trs[Len(trs)][2], trs[Len(trs)][4])
           ELSE << >>)

PointOf(r) == << r[1], Clamp(r[2] - r[3]) >>

IsPermutation(a, b) ==
  /\ Len(a) = Len(b)
  /\ \E p \in [DOMAIN a -> DOMAIN a] :
       /\ \A x, y \in DOMAIN a : x # y => p[x] # p[y]
       /\ \A k \in DOMAIN a : a[k] = b[p[k]]

\* C2: the points handed to the serializer are a permutation of the valid
\* rows of the table (one point per valid row, repeated frequencies kept)
\* and ascend by frequency.
C2_SortedPermutation ==
  Corrected =>
    /\ LET valid == ValidRows(html.trs)
       IN IsPermutation(eq_data, [k \in DOMAIN valid |-> PointOf(valid[k])])
    /\ \A k \in 1..(Len(eq_data) - 1) : eq_data[k][1] <= eq_data[k + 1][1]

\* a table whose two valid rows come in descending order
C2_Witness ==
  /\ Succeeded
  /\ Len(html.trs) = 2 /\ Len(eq_data) = 2
  /\ Val(clean_number(html.trs[1][1])) > Val(clean_number(html.trs[2][1]))
  /\ eq_data[1][1] < eq_data[2][1]

\* C3: when extraction fails with NoTableFound or NoValidData the
\* destination is never opened and keeps the content it had.
C3_FailedExtractionLeavesOutput ==
  (Done /\ outcome \in {"NoTableFound", "NoValidData"}) =>
    /\ ~opened
    /\ out_file = before

\* a table with only a header row, an output file already there
C3_Witness ==
  /\ Done /\ outcome = "NoValidData"
  /\ html.trs = << HeaderRow >>
  /\ before = File(OldText) /\ out_file = before

\* C4: after a successful run the destination holds exactly the line
\* "GraphicEQ: <int(f)> <g:.2f>; ...\n" of the points in dataset order.
C4_OutputIsGraphicEQLine ==
  Succeeded => out_file = File(GraphicEQText(eq_data))

\* C5: when the run has ended the destination holds its content from before
\* the run or the complete output, never an emptied or partly written file.
C5_NoPartialOutput ==
  Done => \/ out_file = before
          \/ out_file = File(OutputText(script, eq_data))

\* C6: the caller can tell the outcomes apart from the signal returned; in
\* particular a run that ended in one of the four failures is never
\* surfaced as the signal of a successful run, which returns None.
C6_FailureSignalDiffersFromSuccess ==
  (Done /\ outcome # "success") => signal # "None"

\* C7: a row is emitted exactly when it has at least four cells and cells
\* 0, 1 and 3 clean to numbers; it carries those three numbers; cell 2 has
\* no part in it.
C7_RowEmittedIffThreeFieldsParse ==
  /\ pc = "rows_loop" => rows = ValidRows(SubSeq(html.trs, 1, i - 1))
  /\ (pc = "sort" \/ (Done /\ outcome = "NoValidData")) =>
       rows = ValidRows(html.trs)

\* a row emitted although its cell 2 is no number
C7_Witness ==
  /\ pc = "sort"
  /\ Len(html.trs) = 1 /\ Len(html.trs[1]) >= 4
  /\ IsNone(clean_number(html.trs[1][3]))
  /\ Len(rows) = 1

\* C8, as claimed: every emitted row and every point has frequency > 0.
C8_FrequencyPositive ==
  /\ \A k \in DOMAIN rows : rows[k][1] > 0
  /\ \A k \in DOMAIN eq_data : eq_data[k][1] > 0

NonPositiveFreqs(trs) ==
  LET valid == ValidRows(trs)
  IN { valid[k][1] : k \in { j \in DOMAIN valid : valid[j][1] <= 0 } }

\* C8, amended: a row whose frequency cleans to zero or to a negative number
\* (target and measured being numbers) is retained, and reaches the
\* corrector and the output.
C8_NonPositiveFrequencyRetained ==
  /\ LoopDone =>
       \A f \in NonPositiveFreqs(html.trs) :
         /\ \E k \in DOMAIN rows : rows[k][1] = f
         /\ Corrected => \E k \in DOMAIN eq_data : eq_data[k][1] = f
  /\ Succeeded => out_file = File(OutputText(script, eq_data))

C8_Witness ==
  /\ Succeeded
  /\ \E k \in DOMAIN eq_data : eq_data[k][1] = 0
  /\ \E k \in DOMAIN eq_data : eq_data[k][1] < 0
  /\ out_file = File(OutputText(script, eq_data))

\* C9: clean_number drops every character but digits, '.' and '-' and
\* returns the number that remains; None for an empty or blank cell, for
\* nothing left, for a remainder that is no number; an already clean text
\* gives its number: "54" -> 54.0, "" -> None, "26.81dB" -> 26.81.
C9_CleanNumber ==
  pc = "returned" =>
    /\ value = << "5", "4" >> => result = Some(54 * Scale)
    /\ value = << >> => result = None
    /\ value = << "2", "6", ".", "8", "1", "d", "B" >>
         => result = Some(26 * Scale + (81 * Scale) \div 100)
    /\ IsBlank(value) => result = None
    /\ ~IsBlank(value) => result = clean_number(re_sub(value))
    /\ IsNone(result) <=>
         (IsBlank(value) \/ re_sub(value) = << >> \/ ~FloatParses(re_sub(value)))
    /\ ~IsNone(result) =>
         /\ clean_number(ReprChars(Val(result))) = result
         /\ (\A k \in DOMAIN value : value[k] \in Digit)
              => Val(result) = DigitsValue(value) * Scale

C9_Witness ==
  /\ pc = "returned"
  /\ value = << "2", "6", ".", "8", "1", "d", "B" >>
  /\ result = Some(26810 * (Scale \div 1000))

NonLeadingDash(text) == \E k \in 2..Len(text) : text[k] = "-"

\* the one row of the table has been through the loop
RowProcessed ==
  /\ pc = "rows_loop" /\ i = 2
  /\ Len(html.trs) = 1 /\ Len(html.trs[1]) >= 4

\* C10, as claimed: "1-2" is parsed as -1 and the row is retained.
C10_DashParsedAsMinusOne ==
  (RowProcessed /\ html.trs[1][1] = << "1", "-", "2" >>) =>
    /\ freq = Some(0 - Scale)
    /\ (~IsNone(target) /\ ~IsNone(avg_response)) => rows # << >>

\* C10, amended: a cell whose cleaned text has a '-' after its first
\* character, such as "1-2", cleans to None, and the row is dropped.
C10_NonLeadingDashIsNone ==
  RowProcessed =>
    /\ NonLeadingDash(re_sub(html.trs[1][1])) => (IsNone(freq) /\ rows = << >>)
    /\ NonLeadingDash(re_sub(html.trs[1][2])) => (IsNone(target) /\ rows = << >>)
    /\ NonLeadingDash(re_sub(html.trs[1][4]))
         => (IsNone(avg_response) /\ rows = << >>)

C10_Witness ==
  /\ RowProcessed
  /\ html.trs[1][1] = << "1", "-", "2" >>
  /\ ~IsNone(target) /\ ~IsNone(avg_response)
  /\ IsNone(freq) /\ rows = << >>

=============================================================================
